---- MODULE Spec2Model ----
(***************************************************************************)
(* Content registry: ContentManager (registry/content/manager.py) over the *)
(* content and history tables (registry/content/content.py), with the      *)
(* REGEXP predicate of registry/utils/databases.py.                        *)
(*                                                                         *)
(* Strings are sequences of one-character strings.  A table row and a      *)
(* params / filters dict are functions whose DOMAIN is the set of keys     *)
(* that are set; a column missing from a row is SQL NULL.                  *)
(***************************************************************************)
EXTENDS Integers, Sequences, FiniteSets, TLC

VARIABLES
    content,    \* the content table: rows in insertion order
    history,    \* the history table: records in insertion order
    now,        \* the clock, time.time()
    session,    \* request.session['client'] of the run's calls
    last,       \* the most recent call and what it returned
    procs,      \* add_file calls in progress (interleaved runs only)
    app         \* the Application: server, periodic loop, stop, connections

vars == <<content, history, now, session, last, procs, app>>

(***************************************************************************)
(* Bounds                                                                  *)
(***************************************************************************)
\* successful mutations per run (each reads the clock once)
MaxOps == 3
\* rows of the content table
MaxFiles == 2
\* database connections of the Connection Set
MaxConns == 2
\* iterations of the periodic loop
MaxIters == 2
\* invocations of Application.stop
MaxStops == 2

(***************************************************************************)
(* Program constants                                                       *)
(***************************************************************************)
DEFAULT_LIST_COUNT == 100
MAX_LIST_COUNT == 1000

VALID_FILTERS == {"id", "path", "since", "count", "category", "alive",
                  "aired", "serve_path"}
MODIFY_TRIGGERS == {"path", "size", "category", "expiration",
                    "serve_path", "alive"}
COLS == {"id", "path", "size", "uploaded", "modified", "category",
         "expiration", "serve_path", "alive"}

(***************************************************************************)
(* Environment: the filesystem and the configured root                     *)
(***************************************************************************)
root_path == <<"r">>

PFileA   == <<"r", "/", "f">>     \* regular file under the root
PFileB   == <<"r", "/", "g">>     \* another regular file under the root
PDir     == <<"r", "/", "d">>     \* a directory under the root
PSibling == <<"r", "x">>          \* regular file of a sibling of the root
POutside == <<"o">>               \* regular file elsewhere
PMissing == <<"r", "/", "m">>     \* nothing there
PEmpty   == <<>>

\* os.path.isfile
isfile(path) == path \in {PFileA, PFileB, PSibling, POutside}

\* os.path.exists (getsize raises OSError when the path does not exist)
path_exists(path) == isfile(path) \/ path = PDir

\* os.path.getsize of an existing path
getsize(path) ==
    CASE path = PFileA   -> 10
      [] path = PFileB   -> 20
      [] path = PSibling -> 30
      [] path = POutside -> 40
      [] OTHER           -> 50

\* str.startswith
startswith(s, prefix) ==
    /\ Len(prefix) <= Len(s)
    /\ \A i \in 1..Len(prefix) : s[i] = prefix[i]

(***************************************************************************)
(* REGEXP: re.compile(expr).search(item) over the alphabet {a, b, +}       *)
(***************************************************************************)
\* re.compile succeeds: "+" needs an atom to repeat, and may not be doubled
RegexCompiles(expr) ==
    \A i \in 1..Len(expr) :
        expr[i] = "+" => (i > 1 /\ expr[i - 1] # "+")

RECURSIVE MatchFrom(_, _, _, _)
\* the pattern from position k matches item from position i
MatchFrom(expr, k, item, i) ==
    IF k > Len(expr) THEN TRUE
    ELSE IF k < Len(expr) /\ expr[k + 1] = "+"
         THEN \E n \in 1..(Len(item) - i + 1) :
                 /\ \A j \in i..(i + n - 1) : item[j] = expr[k]
                 /\ MatchFrom(expr, k + 2, item, i + n)
         ELSE /\ i <= Len(item)
              /\ item[i] = expr[k]
              /\ MatchFrom(expr, k + 1, item, i + 1)

\* None (falsy) when the pattern does not compile, else whether it is found
regexp_operator(expr, item) ==
    IF RegexCompiles(expr)
    THEN \E i \in 1..(Len(item) + 1) : MatchFrom(expr, 1, item, i)
    ELSE FALSE

(***************************************************************************)
(* Rows and dicts                                                          *)
(***************************************************************************)
EmptyDict == [k \in {} |-> 0]

\* dict.update / item assignment: the keys of upd override those of d
DictUpdate(d, upd) ==
    [k \in (DOMAIN d) \cup (DOMAIN upd) |->
        IF k \in DOMAIN upd THEN upd[k] ELSE d[k]]

strip_extra(data, valid_keys) ==
    [k \in (DOMAIN data) \cap valid_keys |-> data[k]]

process_content_data(data) == strip_extra(data, COLS)

\* the backend's representation of a value: booleans are stored as 0 / 1
ToDb(key, v) == IF key = "alive" THEN (IF v THEN 1 ELSE 0) ELSE v

ToRow(data) == [k \in DOMAIN data |-> ToDb(k, data[k])]

\* ContentManager._process_entry: alive back to a boolean
process_entry(row) ==
    [k \in DOMAIN row |-> IF k = "alive" THEN row[k] # 0 ELSE row[k]]

Ids(db) == {db[i].id : i \in 1..Len(db)}

AliveRows(db) == {i \in 1..Len(db) : db[i].alive = 1}

(***************************************************************************)
(* Reads: get_content with the filters of the query                        *)
(***************************************************************************)
\* the WHERE clause built from the filters; a NULL column satisfies none
FilterMatches(row, filters) ==
    /\ "id" \in DOMAIN filters => row.id = filters.id
    /\ "alive" \in DOMAIN filters => row.alive = ToDb("alive", filters.alive)
    /\ "path" \in DOMAIN filters =>
          ("path" \in DOMAIN row /\ row.path = filters.path)
    /\ "category" \in DOMAIN filters =>
          ("category" \in DOMAIN row /\ row.category = filters.category)
    /\ "serve_path" \in DOMAIN filters =>
          regexp_operator(filters.serve_path, row.serve_path)
    /\ "since" \in DOMAIN filters => row.modified >= filters.since

\* how many of n matching rows LIMIT count lets through: the backend reads
\* a negative limit as no limit
LimitLen(n, filters) ==
    IF "count" \in DOMAIN filters /\ filters.count >= 0 /\ filters.count < n
    THEN filters.count
    ELSE n

\* LIMIT count
Limit(rows, filters) == SubSeq(rows, 1, LimitLen(Len(rows), filters))

get_content(db, filters) ==
    Limit(SelectSeq(db, LAMBDA row : FilterMatches(row, filters)), filters)

\* the entry as a sequence of length 1, or <<>> for None
get_file(db, kwargs) ==
    LET filters == DictUpdate(kwargs, [count |-> 1])
        files   == get_content(db, filters)
    IN  IF Len(files) > 0 THEN <<process_entry(files[1])>> ELSE <<>>

\* a variant of exists that does not force alive into the filters
exists_AnyRow(db, kwargs) == get_file(db, kwargs) # <<>>

exists(db, kwargs) ==
    get_file(db, DictUpdate(kwargs, [alive |-> TRUE])) # <<>>

\* ContentManager.validate_filters passes: no ContentException is raised
validate_filters(filters) == DOMAIN filters \subseteq VALID_FILTERS

default_filters == [count |-> DEFAULT_LIST_COUNT]

Min(a, b) == IF a <= b THEN a ELSE b

\* a variant of validate_list_filters that keeps count next to serve_path
validate_list_filters_KeepsCount(filters) ==
    IF "count" \in DOMAIN filters
    THEN [filters EXCEPT !.count = Min(@, MAX_LIST_COUNT)]
    ELSE filters

\* the copy validate_list_filters returns when serve_path compiles
validate_list_filters(filters) ==
    LET f1 == IF {"serve_path", "since"} \cap DOMAIN filters # {}
              THEN [k \in (DOMAIN filters) \ {"count"} |-> filters[k]]
              ELSE filters
    IN  IF "count" \in DOMAIN f1
        THEN [f1 EXCEPT !.count = Min(@, MAX_LIST_COUNT)]
        ELSE f1

\* validate_list_filters raises ValueError: serve_path is not a regex
list_filters_invalid(filters) ==
    "serve_path" \in DOMAIN filters /\ ~RegexCompiles(filters.serve_path)

MapEntries(rows) == [i \in 1..Len(rows) |-> process_entry(rows[i])]

\* the outcome of a read: what it raised, or "ok" and what it returned
ReadOut(result, ret) == [result |-> result, ret |-> ret]

list_files(db, kwargs) ==
    LET filters == DictUpdate(default_filters, kwargs)
    IN  IF list_filters_invalid(filters)
        THEN ReadOut("InvalidFilter", <<>>)
        ELSE ReadOut("ok", MapEntries(
                 get_content(db, validate_list_filters(filters))))

\* get_file as a caller sees it: validate_filters may raise
get_file_call(db, kwargs) ==
    IF ~validate_filters(DictUpdate(kwargs, [count |-> 1]))
    THEN ReadOut("InvalidFilter", <<>>)
    ELSE ReadOut("ok", get_file(db, kwargs))

\* exists as a caller sees it
exists_call(db, kwargs) ==
    IF ~validate_filters(DictUpdate(kwargs, [alive |-> TRUE, count |-> 1]))
    THEN ReadOut("InvalidFilter", FALSE)
    ELSE ReadOut("ok", exists(db, kwargs))

(***************************************************************************)
(* Writes                                                                  *)
(***************************************************************************)
SetMax(S) == CHOOSE x \in S : \A y \in S : y <= x

\* last_insert_rowid of an INSERT that names no id
NextId(db) == IF Len(db) = 0 THEN 1 ELSE SetMax(Ids(db)) + 1

\* the row add_content inserts
InsertedRow(db, data) ==
    LET row == ToRow(process_content_data(data))
    IN  IF "id" \in DOMAIN row THEN row
        ELSE DictUpdate(row, [id |-> NextId(db)])

\* the INSERT is refused when the id is already there
InsertFails(db, data) ==
    "id" \in DOMAIN data /\ data.id \in Ids(db)

add_content(db, data) == Append(db, InsertedRow(db, data))

\* a variant of update_content whose UPDATE has no WHERE clause
update_content_AllRows(db, data) ==
    LET set == ToRow(process_content_data(data))
    IN  [i \in 1..Len(db) |-> DictUpdate(db[i], set)]

update_content(db, data) ==
    LET set == ToRow(process_content_data(data))
    IN  [i \in 1..Len(db) |->
            IF db[i].id = data.id THEN DictUpdate(db[i], set) ELSE db[i]]

\* a variant of AddData where what the caller put into params wins
AddData_CallerWins(path, data, t) ==
    DictUpdate([alive |-> TRUE, uploaded |-> t, modified |-> t,
                size |-> getsize(path)], data)

\* params as _add_file leaves it
AddData(path, data, t) ==
    DictUpdate(data, [alive |-> TRUE, uploaded |-> t, modified |-> t,
                      size |-> getsize(path)])

\* params as _update_file leaves it (the dict is changed in place)
UpdateData(id, data, t) ==
    LET d1 == DictUpdate(data, [id |-> id])
        d2 == IF "path" \in DOMAIN d1
              THEN DictUpdate(d1, [size |-> getsize(d1.path)])
              ELSE d1
    IN  IF (DOMAIN d2) \cap MODIFY_TRIGGERS # {}
        THEN DictUpdate(d2, [modified |-> t])
        ELSE d2

\* a variant of DeleteData that leaves modified alone
DeleteData_NoStamp(id, t) == [id |-> id, alive |-> FALSE]

DeleteData(id, t) == [id |-> id, alive |-> FALSE, modified |-> t]

validate_path(path) ==
    /\ path # <<>>
    /\ startswith(path, root_path)
    /\ isfile(path)

validate_params(params) ==
    "path" \in DOMAIN params => validate_path(params.path)

\* action_params is the comma-joined key names: kept as the set of names
add_action(hist, file_id, client_name, action, action_params, timestamp) ==
    Append(hist, [file_id |-> file_id, client_name |-> client_name,
                  action |-> action, action_params |-> action_params,
                  timestamp |-> timestamp])

record_action(hist, file_id, client_name, action, action_params, t) ==
    add_action(hist, file_id, client_name, action, action_params, t)

get_actions(hist, file_id) ==
    SelectSeq(hist, LAMBDA rec : rec.file_id = file_id)

clear_actions(hist, file_id) ==
    SelectSeq(hist, LAMBDA rec : rec.file_id # file_id)

(***************************************************************************)
(* The manager's operations on (db, hist) at clock reading t               *)
(***************************************************************************)
Fail(db, hist, why) ==
    [result |-> why, db |-> db, hist |-> hist, ret |-> <<>>, id |-> 0]

add_file(db, hist, t, client, path, params) ==
    IF "serve_path" \notin DOMAIN params THEN Fail(db, hist, "Error")
    ELSE IF exists(db, [serve_path |-> params.serve_path])
    THEN Fail(db, hist, "DuplicateEntry")
    ELSE IF ~validate_params(params) THEN Fail(db, hist, "InvalidPath")
    ELSE IF ~path_exists(path) THEN Fail(db, hist, "Error")
    ELSE LET data == AddData(path, params, t)
         IN  IF InsertFails(db, data) THEN Fail(db, hist, "Error")
             ELSE LET db2 == add_content(db, data)
                      id  == db2[Len(db2)].id
                  IN  [result |-> "ok", db |-> db2,
                       hist |-> record_action(hist, id, client.name,
                                              "add", {}, t),
                       ret |-> get_file(db2, [id |-> id]), id |-> id]

\* a variant of update_file without the existence check
update_file_NoExistsCheck(db, hist, t, client, id, params) ==
    IF ~validate_params(params) THEN Fail(db, hist, "InvalidPath")
    ELSE LET data == UpdateData(id, params, t)
             db2  == update_content(db, data)
         IN  [result |-> "ok", db |-> db2,
              hist |-> record_action(hist, id, client.name, "update",
                                     DOMAIN data, t),
              ret |-> get_file(db2, [id |-> id]), id |-> id]

\* a variant of update_file that records the action before it validates
update_file_RecordsFirst(db, hist, t, client, id, params) ==
    IF ~exists(db, [id |-> id]) THEN Fail(db, hist, "NotFound")
    ELSE LET data == UpdateData(id, params, t)
             hist2 == record_action(hist, id, client.name, "update",
                                    DOMAIN data, t)
         IN  IF ~validate_params(params)
             THEN Fail(db, hist2, "InvalidPath")
             ELSE LET db2 == update_content(db, data)
                  IN  [result |-> "ok", db |-> db2, hist |-> hist2,
                       ret |-> get_file(db2, [id |-> id]), id |-> id]

update_file(db, hist, t, client, id, params) ==
    IF ~exists(db, [id |-> id]) THEN Fail(db, hist, "NotFound")
    ELSE IF ~validate_params(params) THEN Fail(db, hist, "InvalidPath")
    ELSE LET data == UpdateData(id, params, t)
             db2  == update_content(db, data)
         IN  [result |-> "ok", db |-> db2,
              hist |-> record_action(hist, id, client.name, "update",
                                     DOMAIN data, t),
              ret |-> get_file(db2, [id |-> id]), id |-> id]

\* a variant of delete_file without the existence check
delete_file_NoExistsCheck(db, hist, t, client, id) ==
    [result |-> "ok",
     db |-> update_content(db, DeleteData(id, t)),
     hist |-> record_action(hist, id, client.name, "delete", {}, t),
     ret |-> <<>>, id |-> id]

delete_file(db, hist, t, client, id) ==
    IF ~exists(db, [id |-> id]) THEN Fail(db, hist, "NotFound")
    ELSE [result |-> "ok",
          db |-> update_content(db, DeleteData(id, t)),
          hist |-> record_action(hist, id, client.name, "delete", {}, t),
          ret |-> <<>>, id |-> id]

(***************************************************************************)
(* The Application: start, the periodic loop, stop and its hooks           *)
(***************************************************************************)
\* self.background_hooks and self.stop_hooks, in configured order
BackgroundHooks == <<"cleanup", "report">>
StopHooks == <<"notify", "databases.pre_stop", "flush">>

IdleLoop == [pc |-> "off", i |-> 0, iter |-> 0, log |-> <<>>, errors |-> 0]

IdleStop ==
    [pc |-> "idle", i |-> 0, j |-> 0, calls |-> 0, log |-> <<>>,
     errors |-> 0]

\* a connection: open until a close() succeeds
NewConn == [open |-> TRUE, closes |-> 0, early |-> FALSE]

\* the Application after __init__ with n database connections
NewApp(n) ==
    [server |-> "none", conns |-> [c \in 1..n |-> NewConn],
     loop |-> IdleLoop, stop |-> IdleStop]

\* no Application is part of the run
AppOff == NewApp(0)

\* a variant of run_background_hook where the exception leaves the loop
run_background_hook_Propagates(lp, raises) ==
    LET lg == [lp EXCEPT !.log = Append(@, BackgroundHooks[lp.i])]
    IN  IF raises THEN [lg EXCEPT !.pc = "dead"]
        ELSE IF lp.i = Len(BackgroundHooks)
        THEN [lg EXCEPT !.pc = "sleep"]
        ELSE [lg EXCEPT !.i = @ + 1]

\* one pass of the for loop of _loop_background: the hook is called, what
\* it raises is logged, and the loop goes to the next hook or to sleep
run_background_hook(lp, raises) ==
    LET lg == [lp EXCEPT !.log = Append(@, BackgroundHooks[lp.i]),
                         !.errors = @ + (IF raises THEN 1 ELSE 0)]
    IN  IF lp.i = Len(BackgroundHooks)
        THEN [lg EXCEPT !.pc = "sleep"]
        ELSE [lg EXCEPT !.i = @ + 1]

\* the for loop of stop goes to the next hook, or stop returns
next_stop_hook(st) ==
    IF st.i = Len(StopHooks)
    THEN [st EXCEPT !.pc = "done"]
    ELSE [st EXCEPT !.pc = "hooks", !.i = @ + 1]

\* one pass of the for loop of stop for a hook other than pre_stop
run_stop_hook(st, raises) ==
    next_stop_hook([st EXCEPT !.log = Append(@, StopHooks[st.i]),
                              !.errors = @ + (IF raises THEN 1 ELSE 0)])

\* conn.close(): a close that raises leaves the connection as it was
close(conn, server, raises) ==
    [open |-> conn.open /\ raises, closes |-> conn.closes + 1,
     early |-> conn.early \/ server # "stopped"]

(***************************************************************************)
(* Inputs of the calls                                                     *)
(***************************************************************************)
Clients == {[name |-> "alice"], [name |-> "bob"]}

SpA    == <<"a">>
SpAB   == <<"a", "b">>
SpPlus == <<"a", "+", "b">>      \* compiles, and does not match itself
SpBad  == <<"+", "a">>           \* does not compile: nothing to repeat

ServePaths == {SpA, SpAB, SpPlus, SpBad}

\* size 7, stamp 0 and id 2 are values a caller puts into params
AddParamInputs ==
    {[serve_path |-> s, path |-> PFileA] : s \in ServePaths}
    \cup {[serve_path |-> SpA, path |-> p] :
             p \in {PDir, PSibling, POutside, PEmpty}}
    \cup {[serve_path |-> SpA],
          [serve_path |-> SpAB, path |-> PFileB, category |-> "news",
           alive |-> FALSE, size |-> 7, modified |-> 0,
           uploaded |-> 0, junk |-> "x"],
          [serve_path |-> SpPlus, path |-> PFileB, id |-> 2]}

\* api.add_file passes params['path']; the manager takes any path
AddPathInputs(params) ==
    IF "path" \in DOMAIN params THEN {params.path} ELSE {PFileA, PMissing}

UpdateParamInputs ==
    {[serve_path |-> s] : s \in {SpA, SpAB}}
    \cup {[path |-> p] : p \in {PFileB, PSibling, PDir, PEmpty}}
    \cup {EmptyDict,
          [category |-> "news"],
          [modified |-> 0],
          [size |-> 7],
          [alive |-> FALSE],
          [id |-> 2, junk |-> "x"]}

IdInputs == 1..(MaxFiles + 1)

\* keyword arguments of list_files; junk is a key outside VALID_FILTERS
ListInputs ==
    {EmptyDict,
     [count |-> 1],
     [alive |-> FALSE],
     [serve_path |-> SpA],
     [serve_path |-> SpA, count |-> 1],
     [serve_path |-> SpBad],
     [since |-> 2, count |-> 1],
     [junk |-> "x"]}

\* keyword arguments of list_files on a large table
BulkListInputs ==
    {[count |-> c] : c \in {0 - 1, 0, 1, MAX_LIST_COUNT,
                            MAX_LIST_COUNT + 1, 5 * MAX_LIST_COUNT}}
    \cup {EmptyDict,
          [alive |-> TRUE],
          [category |-> "news"],
          [serve_path |-> SpA],
          [serve_path |-> SpA, count |-> 1],
          [since |-> DEFAULT_LIST_COUNT, count |-> 1],
          [serve_path |-> SpBad]}

\* keyword arguments of get_file
GetInputs ==
    {[id |-> i] : i \in IdInputs}
    \cup {[id |-> 1, alive |-> FALSE],
          [id |-> 1, alive |-> TRUE],
          [id |-> 1, junk |-> "x"]}

\* keyword arguments of exists
ExistsInputs == {[id |-> 1], [id |-> 1, junk |-> "x"]}

(***************************************************************************)
(* Sequential calls: each runs to completion                               *)
(***************************************************************************)
NoCall ==
    [op |-> "none", client |-> "", id |-> 0, path |-> <<>>,
     params |-> EmptyDict, result |-> "", ret |-> <<>>, time |-> 0]

Init ==
    /\ content = <<>>
    /\ history = <<>>
    /\ now = 1
    /\ session \in Clients
    /\ last = NoCall
    /\ procs = <<>>
    /\ app = AppOff

\* the record of a call: a call that succeeded is kept with its arguments,
\* a call that raised with its kind, its target id and its error
CallRecord(op, client, id, path, params, out, t) ==
    IF out.result = "ok"
    THEN [op |-> op, client |-> client.name,
          id |-> IF op = "add" THEN out.id ELSE id,
          path |-> path, params |-> params,
          result |-> out.result, ret |-> out.ret, time |-> t]
    ELSE [NoCall EXCEPT !.op = op, !.result = out.result, !.id = id]

\* what a call leaves behind; a successful mutation has read the clock
Finish(op, client, id, path, params, out) ==
    /\ out.result = "ok" => now <= MaxOps
    /\ content' = out.db
    /\ history' = out.hist
    /\ now' = IF out.result = "ok" THEN now + 1 ELSE now
    /\ last' = CallRecord(op, client, id, path, params, out, now)
    /\ UNCHANGED <<session, procs, app>>

AddFile ==
    \E params \in AddParamInputs :
      \E path \in AddPathInputs(params) :
        \E out \in {add_file(content, history, now, session, path, params)} :
            /\ out.result = "ok" => Len(content) < MaxFiles
            /\ Finish("add", session, 0, path, params, out)

UpdateFile ==
    \E id \in IdInputs, params \in UpdateParamInputs :
      \E out \in {update_file(content, history, now, session, id, params)} :
        Finish("update", session, id, <<>>, params, out)

DeleteFile ==
    \E id \in IdInputs :
      \E out \in {delete_file(content, history, now, session, id)} :
        Finish("delete", session, id, <<>>, EmptyDict, out)

Next == AddFile \/ UpdateFile \/ DeleteFile

Spec == Init /\ [][Next]_vars

(***************************************************************************)
(* Reads between the calls that change the tables                          *)
(***************************************************************************)
\* the record of a read, kept like that of a call
ReadRecord(op, kwargs, out) ==
    IF out.result = "ok"
    THEN [NoCall EXCEPT !.op = op, !.params = kwargs,
                        !.result = out.result, !.ret = out.ret]
    ELSE [NoCall EXCEPT !.op = op, !.result = out.result]

ListFiles ==
    \E kwargs \in ListInputs :
        /\ last' = ReadRecord("list", kwargs, list_files(content, kwargs))
        /\ UNCHANGED <<content, history, now, session, procs, app>>

GetFile ==
    \E kwargs \in GetInputs :
        /\ last' = ReadRecord("get", kwargs, get_file_call(content, kwargs))
        /\ UNCHANGED <<content, history, now, session, procs, app>>

Exists ==
    \E kwargs \in ExistsInputs :
        /\ last' = ReadRecord("exists", kwargs, exists_call(content, kwargs))
        /\ UNCHANGED <<content, history, now, session, procs, app>>

NextRead == Next \/ ListFiles \/ GetFile \/ Exists

SpecRead == Init /\ [][NextRead]_vars

(***************************************************************************)
(* Listing a table that holds more rows than the list limits               *)
(***************************************************************************)
RECURSIVE Digits(_, _)
\* the serve_path of the i-th bulk entry: i in binary over {a, b}
Digits(i, width) ==
    IF width = 0 THEN <<>>
    ELSE Append(Digits(i \div 2, width - 1),
                IF i % 2 = 0 THEN "a" ELSE "b")

BulkRow(i) ==
    [id |-> i, path |-> PFileA, size |-> getsize(PFileA), uploaded |-> i,
     modified |-> i, serve_path |-> Digits(i, 11), alive |-> 1]

\* table sizes around the default and the maximal list count
BulkSizes ==
    {DEFAULT_LIST_COUNT - 1, DEFAULT_LIST_COUNT, DEFAULT_LIST_COUNT + 1,
     MAX_LIST_COUNT - 1, MAX_LIST_COUNT, MAX_LIST_COUNT + 1}

\* the tables after n add_file calls of the session's client
InitList ==
    /\ session \in Clients
    /\ \E n \in BulkSizes :
         /\ content = [i \in 1..n |-> BulkRow(i)]
         /\ history = [i \in 1..n |->
                          [file_id |-> i, client_name |-> session.name,
                           action |-> "add", action_params |-> {},
                           timestamp |-> i]]
         /\ now = n + 1
    /\ last = NoCall
    /\ procs = <<>>
    /\ app = AppOff

ListFilesBulk ==
    \E kwargs \in BulkListInputs :
        /\ last' = ReadRecord("list", kwargs, list_files(content, kwargs))
        /\ UNCHANGED <<content, history, now, session, procs, app>>

NextList == ListFilesBulk

SpecList == InitList /\ [][NextList]_vars

\* the administrative clear of one file's history
ClearActions ==
    \E id \in IdInputs :
        /\ history' = clear_actions(history, id)
        /\ last' = [NoCall EXCEPT !.op = "clear", !.result = "ok"]
        /\ UNCHANGED <<content, now, session, procs, app>>

NextAdmin == Next \/ ClearActions

SpecAdmin == Init /\ [][NextAdmin]_vars

(***************************************************************************)
(* Interleaved add_file calls: every query sent to the database is a       *)
(* suspension point, and what lies between two queries runs unpreempted    *)
(***************************************************************************)
Procs == {1, 2}

ConcParamInputs == {[serve_path |-> s, path |-> PFileA] : s \in ServePaths}

IdleProc ==
    [pc |-> "idle", params |-> EmptyDict, path |-> <<>>, id |-> 0,
     result |-> "", alone |-> TRUE]

InitConc ==
    /\ content = <<>>
    /\ history = <<>>
    /\ now = 1
    /\ session \in Clients
    /\ last = NoCall
    /\ procs = [p \in Procs |-> IdleProc]
    /\ app = AppOff

\* no other call is between its first query and its return
Undisturbed(p) ==
    \A q \in Procs \ {p} : procs[q].pc \in {"idle", "done"}

\* manager.py 87-91: the exists query, then the checks of the path
CallExists(p) ==
    /\ procs[p].pc = "idle"
    /\ \E params \in ConcParamInputs :
         LET path == params.path
             res  == IF exists(content, [serve_path |-> params.serve_path])
                     THEN "DuplicateEntry"
                     ELSE IF ~validate_params(params) THEN "InvalidPath"
                     ELSE IF ~path_exists(path) THEN "Error"
                     ELSE ""
         IN  procs' = [procs EXCEPT ![p] =
                          [pc |-> IF res = "" THEN "insert" ELSE "done",
                           params |-> params, path |-> path, id |-> 0,
                           result |-> res, alone |-> Undisturbed(p)]]
    /\ UNCHANGED <<content, history, now, session, last, app>>

\* manager.py 92: _add_file, the INSERT and its row id
Insert(p) ==
    /\ procs[p].pc = "insert"
    /\ LET data == AddData(procs[p].path, procs[p].params, now)
       IN  IF InsertFails(content, data)
           THEN /\ procs' = [procs EXCEPT ![p].pc = "done",
                                          ![p].result = "Error",
                                          ![p].alone = @ /\ Undisturbed(p)]
                /\ UNCHANGED content
           ELSE /\ content' = add_content(content, data)
                /\ procs' = [procs EXCEPT
                                ![p].pc = "record",
                                ![p].id = InsertedRow(content, data).id,
                                ![p].alone = @ /\ Undisturbed(p)]
    /\ UNCHANGED <<history, now, session, last, app>>

\* manager.py 93-94: record_action
Record(p) ==
    /\ procs[p].pc = "record"
    /\ history' = record_action(history, procs[p].id, session.name,
                                "add", {}, now)
    /\ procs' = [procs EXCEPT ![p].pc = "get",
                              ![p].alone = @ /\ Undisturbed(p)]
    /\ UNCHANGED <<content, now, session, last, app>>

\* manager.py 95: get_file(id=id) and the return
Return(p) ==
    /\ procs[p].pc = "get"
    /\ procs' = [procs EXCEPT ![p].pc = "done", ![p].result = "ok",
                              ![p].alone = @ /\ Undisturbed(p)]
    /\ last' = [op |-> "add", client |-> session.name, id |-> procs[p].id,
                path |-> procs[p].path, params |-> procs[p].params,
                result |-> "ok",
                ret |-> get_file(content, [id |-> procs[p].id]),
                time |-> now]
    /\ now' = now + 1
    /\ UNCHANGED <<content, history, session, app>>

NextConc ==
    \E p \in Procs : CallExists(p) \/ Insert(p) \/ Record(p) \/ Return(p)

SpecConc == InitConc /\ [][NextConc]_vars

(***************************************************************************)
(* The Application's run: stop is called from the interrupt handler and    *)
(* may come at any point of the loop, before start too                     *)
(***************************************************************************)
InitApp ==
    /\ content = <<>>
    /\ history = <<>>
    /\ now = 1
    /\ session \in Clients
    /\ last = NoCall
    /\ procs = <<>>
    /\ \E n \in 0..MaxConns : app = NewApp(n)

\* application.py 97-104: the server is started and the loop entered
Start ==
    /\ app.server = "none"
    /\ app.loop.pc = "off"
    /\ app' = [app EXCEPT !.server = "running", !.loop.pc = "sleep"]
    /\ UNCHANGED <<content, history, now, session, last, procs>>

\* application.py 107-109: the sleep is over, the hooks run from the first
LoopWake ==
    /\ app.loop.pc = "sleep"
    /\ app.loop.iter < MaxIters
    /\ app' = [app EXCEPT !.loop.pc = "run", !.loop.i = 1,
                          !.loop.iter = @ + 1, !.loop.log = <<>>]
    /\ UNCHANGED <<content, history, now, session, last, procs>>

\* application.py 109-113
LoopHook ==
    /\ app.loop.pc = "run"
    /\ \E raises \in BOOLEAN :
         app' = [app EXCEPT !.loop = run_background_hook(@, raises)]
    /\ UNCHANGED <<content, history, now, session, last, procs>>

\* application.py 115-117: self.server is None until start has run
StopCall ==
    /\ app.stop.pc \in {"idle", "done", "raised"}
    /\ app.stop.calls < MaxStops
    /\ IF app.server = "none"
       THEN app' = [app EXCEPT !.stop.pc = "raised",
                               !.stop.calls = @ + 1, !.stop.log = <<>>]
       ELSE app' = [app EXCEPT !.server = "stopped",
                               !.stop.pc = "hooks", !.stop.i = 1,
                               !.stop.calls = @ + 1, !.stop.log = <<>>]
    /\ UNCHANGED <<content, history, now, session, last, procs>>

\* application.py 119-123, a hook other than pre_stop
StopHook ==
    /\ app.stop.pc = "hooks"
    /\ StopHooks[app.stop.i] # "databases.pre_stop"
    /\ \E raises \in BOOLEAN :
         app' = [app EXCEPT !.stop = run_stop_hook(@, raises)]
    /\ UNCHANGED <<content, history, now, session, last, procs>>

\* application.py 121 and databases.py 130-133: pre_stop is entered
PreStop ==
    /\ app.stop.pc = "hooks"
    /\ StopHooks[app.stop.i] = "databases.pre_stop"
    /\ LET st == [app.stop EXCEPT !.log = Append(@, StopHooks[app.stop.i])]
       IN  app' = [app EXCEPT !.stop =
                      IF Len(app.conns) = 0 THEN next_stop_hook(st)
                      ELSE [st EXCEPT !.pc = "closing", !.j = 1]]
    /\ UNCHANGED <<content, history, now, session, last, procs>>

\* databases.py 133-134: conn.close(); what it raises leaves pre_stop and
\* is caught and logged by stop (application.py 122-123)
CloseConn ==
    /\ app.stop.pc = "closing"
    /\ \E raises \in BOOLEAN :
         LET j == app.stop.j
             conns == [app.conns EXCEPT
                          ![j] = close(@, app.server, raises)]
         IN  app' = [app EXCEPT
                 !.conns = conns,
                 !.stop = IF raises
                          THEN next_stop_hook(
                                   [@ EXCEPT !.errors = @ + 1])
                          ELSE IF j = Len(conns)
                          THEN next_stop_hook(@)
                          ELSE [@ EXCEPT !.j = j + 1]]
    /\ UNCHANGED <<content, history, now, session, last, procs>>

NextApp ==
    Start \/ LoopWake \/ LoopHook \/ StopCall \/ StopHook \/ PreStop
        \/ CloseConn

SpecApp == InitApp /\ [][NextApp]_vars

(***************************************************************************)
(* Properties                                                              *)
(***************************************************************************)
RowOf(db, id) == db[CHOOSE i \in 1..Len(db) : db[i].id = id]

SharedAlive(db, sp) ==
    \E i, j \in AliveRows(db) :
        i # j /\ db[i].serve_path = sp /\ db[j].serve_path = sp

\* C1: in every reachable state, add_file with the serve_path of an alive
\* entry fails with DuplicateEntry, inserts no row and records no action.
C1_DuplicateRejected ==
    \A params \in AddParamInputs : \A path \in AddPathInputs(params) :
        (\E i \in AliveRows(content) :
            content[i].serve_path = params.serve_path)
        => LET out == add_file(content, history, now, session, path, params)
           IN  /\ out.result = "DuplicateEntry"
               /\ out.db = content
               /\ out.hist = history

\* C1: an add_file call was refused as a duplicate
C1_DuplicateSeen ==
    /\ last.op = "add"
    /\ last.result = "DuplicateEntry"

\* C2: after any sequence of calls that each ran to completion, no two
\* alive entries have the same serve_path.
C2_UniqueAliveServePath ==
    \A i, j \in AliveRows(content) :
        i # j => content[i].serve_path # content[j].serve_path

\* C2: an update_file gave an entry the serve_path of another alive entry
C2_UpdateCollision ==
    /\ last.op = "update"
    /\ last.result = "ok"
    /\ "serve_path" \in DOMAIN last.params
    /\ last.params.serve_path = SpA
    /\ SharedAlive(content, SpA)

\* C3: add_file with a valid path succeeds whenever no alive entry has its
\* serve_path, appending a new alive row and keeping every earlier row.
C3_FreshAddSucceeds ==
    \A params \in AddParamInputs : \A path \in AddPathInputs(params) :
        (/\ "id" \notin DOMAIN params
         /\ validate_params(params)
         /\ validate_path(path)
         /\ \A i \in AliveRows(content) :
                content[i].serve_path # params.serve_path)
        => LET out == add_file(content, history, now, session, path, params)
           IN  /\ out.result = "ok"
               /\ Len(out.db) = Len(content) + 1
               /\ SubSeq(out.db, 1, Len(content)) = content
               /\ out.db[Len(out.db)].alive = 1

\* C3: an add_file succeeded with the serve_path of a soft-deleted entry,
\* which is still in the table
C3_ReAddAfterDelete ==
    /\ last.op = "add"
    /\ last.result = "ok"
    /\ \E i \in 1..Len(content) :
          /\ content[i].alive = 0
          /\ content[i].id # last.id
          /\ content[i].serve_path = last.params.serve_path

BothAdded ==
    \A p \in Procs : procs[p].pc = "done" /\ procs[p].result = "ok"

\* C4: two add_file calls with the same serve_path that each ran to
\* completion without interleaving do not both succeed and leave two alive
\* entries sharing it.
C4_SequentialNoDuplicate ==
    (/\ procs # <<>>
     /\ BothAdded
     /\ \A p \in Procs : procs[p].alone
     /\ procs[1].params.serve_path = procs[2].params.serve_path)
    => ~SharedAlive(content, procs[1].params.serve_path)

\* C4: two interleaved add_file calls with the same serve_path, one that
\* matches itself, both succeeded and left two alive entries sharing it
C4_RaceDuplicate ==
    /\ procs # <<>>
    /\ BothAdded
    /\ \E p \in Procs : ~procs[p].alone
    /\ procs[1].params.serve_path = SpA
    /\ procs[2].params.serve_path = SpA
    /\ SharedAlive(content, SpA)

\* C5: a successful add_file returns an entry that is alive, has
\* uploaded = modified and the size of the file at the given path, and
\* leaves exactly one record for the returned id: an add with no
\* action_params and the caller's name.
C5_AddResult ==
    (last.op = "add" /\ last.result = "ok")
    => /\ Len(last.ret) = 1
       /\ last.ret[1].id = last.id
       /\ last.ret[1].alive = TRUE
       /\ last.ret[1].uploaded = last.ret[1].modified
       /\ last.ret[1].size = getsize(last.path)
       /\ LET recs == get_actions(history, last.id)
          IN  /\ Len(recs) = 1
              /\ recs[1].action = "add"
              /\ recs[1].action_params = {}
              /\ recs[1].client_name = last.client

\* C5: an add_file succeeded whose params carried alive, size and stamps
C5_AddSucceeded ==
    /\ last.op = "add"
    /\ last.result = "ok"
    /\ {"alive", "size", "modified"} \subseteq DOMAIN last.params
    /\ session.name = "bob"

\* C6: a manager call appends exactly one history record when it succeeds
\* and none when it fails, and never changes or removes an earlier record;
\* a clear removes the records of one file id and no other.
C6_HistoryAppendOnly ==
    [][IF last'.op = "clear"
       THEN \E id \in IdInputs :
              LET kept == {k \in 1..Len(history) : history[k].file_id # id}
              IN  /\ Len(history') = Cardinality(kept)
                  /\ \A k \in kept :
                        history'[Cardinality({j \in kept : j <= k})]
                            = history[k]
       ELSE /\ Len(history') =
                  Len(history) + (IF last'.result = "ok" THEN 1 ELSE 0)
            /\ SubSeq(history', 1, Len(history)) = history]_vars

\* C6: a call failed on its path after two calls had succeeded
C6_FailedCallSeen ==
    /\ last.op = "update"
    /\ last.result = "InvalidPath"
    /\ Len(history) = 2

\* C7: update_file with an id that no entry has fails with NotFound and
\* leaves the content and the history tables as they were.
C7_UpdateMissingId ==
    \A id \in IdInputs \ Ids(content) : \A params \in UpdateParamInputs :
        LET out == update_file(content, history, now, session, id, params)
        IN  /\ out.result = "NotFound"
            /\ out.db = content
            /\ out.hist = history

\* C7: an update_file failed with NotFound while every entry was alive
C7_MissingIdSeen ==
    /\ last.op = "update"
    /\ last.result = "NotFound"
    /\ Len(content) > 0
    /\ AliveRows(content) = 1..Len(content)

\* C8: a successful update_file whose params hold no trigger attribute
\* leaves modified as it was, and one whose params hold a trigger attribute
\* sets it to the time of the update.
C8_ModifiedOnlyOnTrigger ==
    [][(last'.op = "update" /\ last'.result = "ok")
       => IF (DOMAIN last'.params) \cap MODIFY_TRIGGERS = {}
          THEN RowOf(content', last'.id).modified
                   = RowOf(content, last'.id).modified
          ELSE RowOf(content', last'.id).modified = last'.time]_vars

\* C9: the record of a successful update_file lists exactly the attribute
\* names the caller supplied in params.
C9_ActionParamsAreCallerKeys ==
    (last.op = "update" /\ last.result = "ok")
    => history[Len(history)].action_params = DOMAIN last.params

\* C10: no step removes a content row, and a successful delete_file keeps
\* every row, sets alive = false and modified = now on the target and
\* nothing else, and appends exactly one delete record.
C10_SoftDelete ==
    [][/\ Ids(content) \subseteq Ids(content')
       /\ (last'.op = "delete" /\ last'.result = "ok")
          => /\ Len(content') = Len(content)
             /\ \A i \in 1..Len(content) :
                   IF content[i].id = last'.id
                   THEN content'[i] = [content[i] EXCEPT
                                          !.alive = 0,
                                          !.modified = last'.time]
                   ELSE content'[i] = content[i]
             /\ history' = Append(history,
                   [file_id |-> last'.id, client_name |-> last'.client,
                    action |-> "delete", action_params |-> {},
                    timestamp |-> last'.time])]_vars

\* C10: a delete_file succeeded on one of two entries
C10_DeleteSeen ==
    /\ last.op = "delete"
    /\ last.result = "ok"
    /\ Len(content) = 2
    /\ RowOf(content, last.id).alive = 0

\* the filters list_files hands to get_content for the given arguments
Handed(kwargs) == validate_list_filters(DictUpdate(default_filters, kwargs))

\* C11: list_files called with no filter of the caller returns no entry
\* with alive = false.
C11_DefaultListOnlyAlive ==
    (last.op = "list" /\ last.result = "ok" /\ last.params = EmptyDict)
    => \A i \in 1..Len(last.ret) : last.ret[i].alive = TRUE

\* C11: a list_files call without filters returned a soft-deleted entry
C11_DeadEntryListed ==
    /\ last.op = "list"
    /\ last.result = "ok"
    /\ last.params = EmptyDict
    /\ \E i \in 1..Len(last.ret) : last.ret[i].alive = FALSE

\* C12: get_file(id) of a soft-deleted entry returns nothing when the
\* caller gives no alive filter, and returns the entry when the caller
\* filters on alive = false.
C12_GetAfterDelete ==
    (/\ last.op = "get"
     /\ last.result = "ok"
     /\ "id" \in DOMAIN last.params
     /\ \E i \in 1..Len(content) :
            content[i].id = last.params.id /\ content[i].alive = 0)
    => IF "alive" \notin DOMAIN last.params
       THEN last.ret = <<>>
       ELSE IF last.params.alive
            THEN last.ret = <<>>
            ELSE last.ret =
                     <<process_entry(RowOf(content, last.params.id))>>

\* C12: get_file(id) without an alive filter returned a soft-deleted entry
C12_DeadEntryReturned ==
    /\ last.op = "get"
    /\ last.result = "ok"
    /\ DOMAIN last.params = {"id"}
    /\ Len(last.ret) = 1
    /\ last.ret[1].alive = FALSE

\* C13: a list_files call with neither serve_path nor since hands the
\* backend a limit of at most 1000 and returns at most 1000 rows, whatever
\* count the caller gave; without a count the limit is 100.
C13_CountClamped ==
    (/\ last.op = "list"
     /\ last.result = "ok"
     /\ {"serve_path", "since"} \cap DOMAIN last.params = {})
    => LET handed == Handed(last.params)
       IN  /\ "count" \in DOMAIN handed
           /\ handed.count <= MAX_LIST_COUNT
           /\ Len(last.ret) <= MAX_LIST_COUNT
           /\ "count" \notin DOMAIN last.params
                  => handed.count = DEFAULT_LIST_COUNT

\* C13: list_files with a negative count returned more than 1000 rows
C13_NegativeCountUnlimited ==
    /\ last.op = "list"
    /\ last.result = "ok"
    /\ DOMAIN last.params = {"count"}
    /\ last.params.count < 0
    /\ Len(last.ret) > MAX_LIST_COUNT

\* C14: a list_files call whose filters hold serve_path or since hands the
\* backend no count and returns every matching entry; a serve_path that is
\* not a regular expression makes the call fail with InvalidFilter.
C14_SelectiveFiltersDropCount ==
    /\ (/\ last.op = "list"
        /\ last.result = "ok"
        /\ {"serve_path", "since"} \cap DOMAIN last.params # {})
       => /\ "count" \notin DOMAIN Handed(last.params)
          /\ last.ret = MapEntries(SelectSeq(content,
                 LAMBDA row : FilterMatches(row,
                     [k \in (DOMAIN last.params) \ {"count"} |->
                         last.params[k]])))
    /\ \A kwargs \in ListInputs \cup BulkListInputs :
          "serve_path" \in DOMAIN kwargs
          => (list_files(content, kwargs).result = "InvalidFilter"
                 <=> ~RegexCompiles(kwargs.serve_path))

\* C14: list_files(serve_path, count = 1) returned two entries
C14_AllMatchesReturned ==
    /\ last.op = "list"
    /\ last.result = "ok"
    /\ DOMAIN last.params = {"serve_path", "count"}
    /\ last.params.count = 1
    /\ Len(last.ret) = 2

\* C15: validate_filters fails exactly for the mappings with a key outside
\* the eight filter names, and exists, get_file and list_files given such a
\* key fail with InvalidFilter.
C15_UnknownKeysRejected ==
    /\ \A K \in SUBSET {"id", "path", "since", "count", "category",
                         "alive", "aired", "serve_path", "junk"} :
          validate_filters([k \in K |-> 1]) <=> "junk" \notin K
    /\ \A kwargs \in GetInputs :
          "junk" \in DOMAIN kwargs
          => get_file_call(content, kwargs).result = "InvalidFilter"
    /\ \A kwargs \in ExistsInputs :
          "junk" \in DOMAIN kwargs
          => exists_call(content, kwargs).result = "InvalidFilter"
    /\ (last.op = "list" /\ last.result = "ok")
          => "junk" \notin DOMAIN last.params

\* C15: list_files given an unknown key returned the table's entries
C15_UnknownKeyListed ==
    /\ last.op = "list"
    /\ last.result = "ok"
    /\ "junk" \in DOMAIN last.params
    /\ Len(last.ret) > 0

\* C16: the entry a successful add_file returns is the stored row as
\* get_file(id) reads it right afterwards, and its path, serve_path and
\* category are the values the caller supplied.
C16_AddRoundTrip ==
    (last.op = "add" /\ last.result = "ok")
    => /\ Len(last.ret) = 1
       /\ last.ret[1] = process_entry(RowOf(content, last.id))
       /\ get_file_call(content, [id |-> last.id]) =
              ReadOut("ok", last.ret)
       /\ "path" \in DOMAIN last.ret[1]
       /\ last.ret[1].path = last.path
       /\ last.ret[1].serve_path = last.params.serve_path
       /\ "category" \in DOMAIN last.params
              => last.ret[1].category = last.params.category

\* C16: add_file with a path and params that name no path returned an
\* entry without a path
C16_PathNotStored ==
    /\ last.op = "add"
    /\ last.result = "ok"
    /\ last.path = PFileA
    /\ "path" \notin DOMAIN last.ret[1]

\* C17: after a successful add_file or update_file the stored size is the
\* size of the file measured in the call, or unchanged when the update gave
\* no path, and the stored modified is the clock of the call or unchanged:
\* no size or modified of the caller is written.
C17_SizeModifiedServerSide ==
    [][(last'.op \in {"add", "update"} /\ last'.result = "ok")
       => LET new == RowOf(content', last'.id)
          IN  IF last'.op = "add"
              THEN /\ new.size = getsize(last'.path)
                   /\ new.modified = last'.time
              ELSE LET old == RowOf(content, last'.id)
                   IN  /\ new.size =
                             IF "path" \in DOMAIN last'.params
                             THEN getsize(last'.params.path)
                             ELSE old.size
                       /\ new.modified \in {last'.time, old.modified}]_vars

\* C17: update_file wrote the size the caller gave
C17_CallerSizeStored ==
    /\ last.op = "update"
    /\ last.result = "ok"
    /\ DOMAIN last.params = {"size"}
    /\ RowOf(content, last.id).size = last.params.size
    /\ "path" \in DOMAIN RowOf(content, last.id)
    /\ last.params.size # getsize(RowOf(content, last.id).path)

\* inside the root directory, not merely sharing its leading characters
UnderRoot(path) == startswith(path, root_path \o <<"/">>)

GoodPath(path) == path # <<>> /\ UnderRoot(path) /\ isfile(path)

\* C18: a successful add_file, and a successful update_file that supplies
\* path, stores a non-empty path of a regular file inside the root; a call
\* whose path is empty, outside the root (a sibling that starts with the
\* root string included) or not a regular file does not succeed: it fails
\* with InvalidPath (unless an earlier check of the call already failed)
\* and leaves both tables unchanged.
C18_PathValidated ==
    /\ (last.op = "add" /\ last.result = "ok")
       => /\ GoodPath(last.path)
          /\ "path" \in DOMAIN RowOf(content, last.id)
          /\ GoodPath(RowOf(content, last.id).path)
    /\ (last.op = "update" /\ last.result = "ok"
           /\ "path" \in DOMAIN last.params)
       => RowOf(content, last.id).path = last.params.path
          /\ GoodPath(last.params.path)
    /\ \A params \in AddParamInputs : \A path \in AddPathInputs(params) :
          LET out == add_file(content, history, now, session, path, params)
          IN  ("path" \in DOMAIN params /\ ~GoodPath(path)
                 /\ out.result # "ok")
              => /\ out.result \in {"InvalidPath", "DuplicateEntry"}
                 /\ out.db = content
                 /\ out.hist = history
    /\ \A id \in IdInputs : \A params \in UpdateParamInputs :
          LET out == update_file(content, history, now, session, id, params)
          IN  ("path" \in DOMAIN params /\ ~GoodPath(params.path)
                 /\ out.result # "ok")
              => /\ out.result \in {"InvalidPath", "NotFound"}
                 /\ out.db = content
                 /\ out.hist = history

\* C18: add_file stored the path of a file in a sibling of the root
C18_SiblingPathStored ==
    /\ last.op = "add"
    /\ last.result = "ok"
    /\ last.path = PSibling
    /\ "path" \in DOMAIN RowOf(content, last.id)
    /\ RowOf(content, last.id).path = PSibling

\* C19: at shutdown every connection is closed exactly once and only after
\* the listener has been stopped, for any number of connections, also when
\* a close raises and also when stop is invoked more than once.
C19_ConnectionsClosedOnce ==
    /\ \A c \in 1..Len(app.conns) :
          /\ app.conns[c].closes <= 1
          /\ ~app.conns[c].early
    /\ app.stop.pc = "done"
          => \A c \in 1..Len(app.conns) : app.conns[c].closes = 1

\* C19: stop returned after the close of the first connection raised, and
\* the second connection was never closed
C19_CloseSkipped ==
    /\ app.stop.pc = "done"
    /\ app.stop.calls = 1
    /\ Len(app.conns) = 2
    /\ app.conns[1].closes = 1
    /\ app.conns[1].open
    /\ app.conns[2].closes = 0
    /\ app.conns[2].open

\* C20: in every iteration of the periodic loop each background hook is
\* invoked once in configured order whether or not an earlier one raised,
\* and the loop is never left; a stop that reached its hooks invokes every
\* stop hook once in order whether or not an earlier one raised, and
\* returns: stop raises only before its first hook.
C20_HookFailuresContained ==
    /\ app.loop.pc \in {"off", "sleep", "run"}
    /\ app.loop.pc = "run"
          => app.loop.log = SubSeq(BackgroundHooks, 1, app.loop.i - 1)
    /\ (app.loop.pc = "sleep" /\ app.loop.iter > 0)
          => app.loop.log = BackgroundHooks
    /\ app.stop.pc \in {"idle", "hooks", "closing", "done", "raised"}
    /\ app.stop.pc = "raised" => app.stop.log = <<>>
    /\ app.stop.pc = "hooks"
          => app.stop.log = SubSeq(StopHooks, 1, app.stop.i - 1)
    /\ app.stop.pc = "closing"
          => app.stop.log = SubSeq(StopHooks, 1, app.stop.i)
    /\ app.stop.pc = "done" => app.stop.log = StopHooks

\* C20: the loop finished its second iteration after every hook of both
\* iterations raised, and stop returned after all of its hooks raised
C20_AllHooksRaised ==
    /\ app.loop.pc = "sleep"
    /\ app.loop.iter = MaxIters
    /\ app.loop.errors = MaxIters * Len(BackgroundHooks)
    /\ app.stop.pc = "done"
    /\ app.stop.errors = Len(StopHooks)

\* C21: an entry with alive = false is never changed again: every later
\* update_file or delete_file on its id fails with NotFound and leaves both
\* tables as they were, and no add_file, update_file or delete_file call
\* alters any of its attributes or makes it alive.
C21_SoftDeleteAbsorbing ==
    [][/\ \A i \in 1..Len(content) :
             content[i].alive = 0
             => (i <= Len(content') /\ content'[i] = content[i])
       /\ (/\ last'.op \in {"update", "delete"}
           /\ \E i \in 1..Len(content) :
                  content[i].id = last'.id /\ content[i].alive = 0)
          => /\ last'.result = "NotFound"
             /\ content' = content
             /\ history' = history]_vars

\* C21: an update_file aimed at a soft-deleted entry failed with NotFound
C21_DeadTargetRefused ==
    /\ last.op = "update"
    /\ last.result = "NotFound"
    /\ \E i \in 1..Len(content) :
          content[i].id = last.id /\ content[i].alive = 0

\* C22: a successful update_file or delete_file changes the target row
\* only: the table keeps its length, every row keeps its id (an id inside
\* params does not count), no row gets a key outside the columns, and every
\* other row is left as it was.
C22_OnlyTargetRowChanges ==
    [][(last'.op \in {"update", "delete"} /\ last'.result = "ok")
       => /\ Len(content') = Len(content)
          /\ \A i \in 1..Len(content) :
                /\ content'[i].id = content[i].id
                /\ DOMAIN content'[i] \subseteq COLS
                /\ content[i].id # last'.id => content'[i] = content[i]]_vars

\* C22: update_file(1, params) with another entry's id and an unknown key
\* in params succeeded while that other entry was in the table
C22_ForeignIdInParams ==
    /\ last.op = "update"
    /\ last.result = "ok"
    /\ last.id = 1
    /\ DOMAIN last.params = {"id", "junk"}
    /\ last.params.id = 2
    /\ {1, 2} \subseteq Ids(content)

\* the actions of one file: an add, then updates, then at most one delete
ShapeOK(recs) ==
    /\ Len(recs) >= 1
    /\ recs[1].action = "add"
    /\ \A k \in 2..Len(recs) : recs[k].action \in {"update", "delete"}
    /\ \A k \in 1..Len(recs) : recs[k].action = "delete" => k = Len(recs)

LastAction(recs) == recs[Len(recs)]

\* C23: every record's file_id is the id of a content row, the records of
\* each file are one add, then updates, then at most one delete with nothing
\* after it, and the entry is alive exactly when it has no delete record.
C23_HistoryShape ==
    /\ \A k \in 1..Len(history) : history[k].file_id \in Ids(content)
    /\ \A i \in 1..Len(content) :
          LET recs == get_actions(history, content[i].id)
          IN  /\ ShapeOK(recs)
              /\ content[i].alive = 1 <=> LastAction(recs).action # "delete"

\* C23 as amended: every record's file_id is the id of a content row, the
\* records of each file are one add, then updates, then at most one delete
\* with nothing after it; an entry with a delete record is not alive, and
\* the last record of an entry that is not alive is its delete or an update
\* whose action_params lists alive.
C23_HistoryShapeAmended ==
    /\ \A k \in 1..Len(history) : history[k].file_id \in Ids(content)
    /\ \A i \in 1..Len(content) :
          LET recs == get_actions(history, content[i].id)
          IN  /\ ShapeOK(recs)
              /\ LastAction(recs).action = "delete" => content[i].alive = 0
              /\ content[i].alive = 0
                    => \/ LastAction(recs).action = "delete"
                       \/ /\ LastAction(recs).action = "update"
                          /\ "alive" \in LastAction(recs).action_params

\* C23: an entry was made not alive by update_file and has no delete
\* record, next to an entry that is alive
C23_DeadWithoutDelete ==
    \E i, j \in 1..Len(content) :
        /\ content[i].alive = 0
        /\ LastAction(get_actions(history, content[i].id)).action = "update"
        /\ "alive" \in
              LastAction(get_actions(history, content[i].id)).action_params
        /\ content[j].alive = 1

====
